---- MODULE Spec2Model ----
(***************************************************************************)
(* The chat-completion data model of src/v1/chat_completion.rs and its     *)
(* JSON wire format.  A JSON document is a tree; an object keeps its       *)
(* members in the order they are written on the wire.  The serde derive    *)
(* attributes of the source are the type descriptors below, and Serialize  *)
(* and Deserialize interpret them the way the derived impls behave under   *)
(* serde_json.  hasher is the RandomState of the process: the order in     *)
(* which a HashMap yields its entries.                                     *)
(***************************************************************************)
EXTENDS Integers, Sequences, FiniteSets, TLC

VARIABLES pc, ty, inserts, mem, wire, res, hasher

vars == <<pc, ty, inserts, mem, wire, res, hasher>>

-----------------------------------------------------------------------------
(* JSON documents *)

JStr(s) == [k |-> "string", s |-> s]
(* A number is written as an integer literal or with a fraction; the model *)
(* keeps a fraction in tenths (JFloat(5) is 0.5, JFloat(10) is 1.0).       *)
JNum(n) == [k |-> "number", n |-> n]
JFloat(tenths) == [k |-> "number", tenths |-> tenths]
IsInteger(j) == j.k = "number" /\ "n" \in DOMAIN j
JBool(b) == [k |-> "bool", b |-> b]
JNull == [k |-> "null"]
JArr(e) == [k |-> "array", e |-> e]
JObj(m) == [k |-> "object", m |-> m]
Member(key, val) == [key |-> key, val |-> val]

Keys(j) == {j.m[i].key : i \in 1..Len(j.m)}
HasKey(j, key) == j.k = "object" /\ key \in Keys(j)
(* Value's index by key: of several members with the key, the last one *)
Get(j, key) == j.m[CHOOSE i \in 1..Len(j.m) : j.m[i].key = key /\ \A h \in (i+1)..Len(j.m) : j.m[h].key # key].val

(* Rust's Option and Result *)

None == [some |-> FALSE]
Some(v) == [some |-> TRUE, v |-> v]
Ok(v) == [ok |-> TRUE, val |-> v]
Err(kind, what) == [ok |-> FALSE, err |-> kind, what |-> what]

(* f64: a finite value in tenths, or one of the non-finite ones *)
Finite(tenths) == [float |-> "finite", tenths |-> tenths]
NaN == [float |-> "NaN"]
Infinity == [float |-> "inf"]

-----------------------------------------------------------------------------
(* Type descriptors: what a #[derive(Serialize, Deserialize)] sees *)

TString == [kind |-> "String"]
TI32 == [kind |-> "i32"]
TI64 == [kind |-> "i64"]
TUsize == [kind |-> "usize"]
TF64 == [kind |-> "f64"]
TBool == [kind |-> "bool"]
TValue == [kind |-> "Value"]
TOption(t) == [kind |-> "Option", of |-> t]
TVec(t) == [kind |-> "Vec", of |-> t]
TBox(t) == [kind |-> "Box", of |-> t]
TBTreeMap(t) == [kind |-> "BTreeMap", of |-> t]
THashMap(t) == [kind |-> "HashMap", of |-> t]
TRef(name) == [kind |-> "ref", name |-> name]

(* One field of a struct: its Rust name, its key on the wire (serde rename), *)
(* its type, whether it carries skip_serializing_if = "Option::is_none", and *)
(* the name of its serialize_with function ("" when it has none).            *)
Field(field, key, t, skip, with) == [field |-> field, key |-> key, ty |-> t, skip |-> skip, with |-> with]
Plain(field, t) == Field(field, field, t, FALSE, "")
Skip(field, t) == Field(field, field, t, TRUE, "")
Variant(rust, w) == [rust |-> rust, wire |-> w]

ToolType == [kind |-> "enum", name |-> "ToolType", variants |-> <<Variant("Function", "function")>>]

Function == [kind |-> "struct", name |-> "Function", fields |-> <<
    Plain("name", TString),
    Skip("description", TOption(TString)),
    Plain("parameters", TValue)>>]

Tool == [kind |-> "struct", name |-> "Tool", fields |-> <<
    Plain("type", TRef("ToolType")),
    Plain("function", TRef("Function"))>>]

ToolChoiceType == [kind |-> "externally_tagged", name |-> "ToolChoiceType", variants |-> <<
    [rust |-> "None", wire |-> "None", fields |-> <<>>],
    [rust |-> "Auto", wire |-> "Auto", fields |-> <<>>],
    [rust |-> "Any", wire |-> "Any", fields |-> <<>>],
    [rust |-> "ToolChoice", wire |-> "ToolChoice", fields |-> <<Plain("tool", TRef("Tool"))>>]>>]

MessageRole == [kind |-> "enum", name |-> "MessageRole", variants |-> <<
    Variant("user", "user"), Variant("system", "system"), Variant("assistant", "assistant"),
    Variant("function", "function"), Variant("tool", "tool")>>]

ImageUrlType == [kind |-> "struct", name |-> "ImageUrlType", fields |-> <<Plain("url", TString)>>]

StructuredContent == [kind |-> "internally_tagged", name |-> "StructuredContent", tag |-> "type", variants |-> <<
    [rust |-> "Text", wire |-> "text", fields |-> <<Plain("text", TString)>>],
    [rust |-> "ImageUrl", wire |-> "image_url", fields |-> <<Plain("image_url", TRef("ImageUrlType"))>>]>>]

Content == [kind |-> "Content", name |-> "Content"]

JSONSchemaType_unrenamed == [kind |-> "enum", name |-> "JSONSchemaType", variants |-> <<
    Variant("Object", "Object"), Variant("Number", "Number"), Variant("String", "String"),
    Variant("Array", "Array"), Variant("Null", "Null"), Variant("Boolean", "Boolean")>>]

(* #[serde(rename_all = "lowercase")] *)
JSONSchemaType == [kind |-> "enum", name |-> "JSONSchemaType", variants |-> <<
    Variant("Object", "object"), Variant("Number", "number"), Variant("String", "string"),
    Variant("Array", "array"), Variant("Null", "null"), Variant("Boolean", "boolean")>>]

JSONSchemaDefine == [kind |-> "struct", name |-> "JSONSchemaDefine", fields |-> <<
    Field("schema_type", "type", TOption(TRef("JSONSchemaType")), FALSE, ""),
    Skip("description", TOption(TString)),
    Skip("enum_values", TOption(TVec(TString))),
    Skip("properties", TOption(TBTreeMap(TBox(TRef("JSONSchemaDefine"))))),
    Skip("required", TOption(TVec(TString))),
    Skip("items", TOption(TBox(TRef("JSONSchemaDefine"))))>>]

FinishReason == [kind |-> "enum", name |-> "FinishReason", variants |-> <<
    Variant("stop", "stop"), Variant("length", "length"), Variant("content_filter", "content_filter"),
    Variant("tool_calls", "tool_calls"), Variant("null", "null")>>]

FinishDetails == [kind |-> "struct", name |-> "FinishDetails", fields |-> <<
    Plain("type", TRef("FinishReason")),
    Plain("stop", TString)>>]

ToolCallFunction == [kind |-> "struct", name |-> "ToolCallFunction", fields |-> <<
    Skip("name", TOption(TString)),
    Skip("arguments", TOption(TString))>>]

ToolCall == [kind |-> "struct", name |-> "ToolCall", fields |-> <<
    Plain("id", TString),
    Plain("type", TString),
    Plain("function", TRef("ToolCallFunction"))>>]

ChatCompletionMessage == [kind |-> "struct", name |-> "ChatCompletionMessage", fields |-> <<
    Plain("role", TRef("MessageRole")),
    Plain("content", TOption(TRef("Content"))),
    Skip("tool_calls", TOption(TVec(TRef("ToolCall")))),
    Skip("tool_call_id", TOption(TString))>>]

ChatCompletionMessageForResponse == [kind |-> "struct", name |-> "ChatCompletionMessageForResponse", fields |-> <<
    Plain("role", TRef("MessageRole")),
    Skip("content", TOption(TString)),
    Skip("name", TOption(TString)),
    Skip("function_call", TOption(TRef("ToolCallFunction"))),
    Skip("tool_calls", TOption(TVec(TRef("ToolCall"))))>>]

ChatCompletionChoice == [kind |-> "struct", name |-> "ChatCompletionChoice", fields |-> <<
    Plain("index", TI64),
    Plain("message", TRef("ChatCompletionMessageForResponse")),
    Plain("finish_reason", TOption(TRef("FinishReason"))),
    Plain("finish_details", TOption(TRef("FinishDetails")))>>]

(* common::Usage is declared outside the files at hand: the three token *)
(* counters of the API's usage object.                                   *)
Usage == [kind |-> "struct", name |-> "Usage", fields |-> <<
    Plain("prompt_tokens", TI32),
    Plain("completion_tokens", TI32),
    Plain("total_tokens", TI32)>>]

ChatCompletionResponse == [kind |-> "struct", name |-> "ChatCompletionResponse", fields |-> <<
    Plain("id", TString),
    Plain("model", TString),
    Plain("choices", TVec(TRef("ChatCompletionChoice"))),
    Plain("usage", TRef("Usage")),
    Plain("system_fingerprint", TOption(TString))>>]

LoraRequest == [kind |-> "struct", name |-> "LoraRequest", fields |-> <<
    Plain("lora_id", TString),
    Plain("lora_int_id", TI32),
    Plain("lora_local_path", TString)>>]

EmpowerMetadata == [kind |-> "struct", name |-> "EmpowerMetadata", fields |-> <<
    Plain("id", TString),
    Plain("lora_request", TOption(TRef("LoraRequest"))),
    Plain("use_beam_search", TOption(TBool)),
    Plain("best_of", TOption(TI32)),
    Plain("tools_only", TOption(TBool)),
    Plain("tools_enabled", TOption(TBool)),
    Plain("conversation_json_schema", TOption(TString)),
    Plain("tools_json_schema", TOption(TString)),
    Plain("num_cached_prefix_messages", TOption(TUsize)),
    Plain("logprobs", TOption(TUsize)),
    Plain("ignore_eos", TBool),
    Plain("skip_chat_template", TBool)>>]

ChatCompletionRequest == [kind |-> "struct", name |-> "ChatCompletionRequest", fields |-> <<
    Plain("model", TString),
    Plain("messages", TVec(TRef("ChatCompletionMessage"))),
    Skip("temperature", TOption(TF64)),
    Skip("top_p", TOption(TF64)),
    Skip("n", TOption(TI64)),
    Skip("response_format", TOption(TValue)),
    Skip("stream", TOption(TBool)),
    Skip("stop", TOption(TVec(TString))),
    Skip("max_tokens", TOption(TI64)),
    Skip("presence_penalty", TOption(TF64)),
    Skip("frequency_penalty", TOption(TF64)),
    Skip("logit_bias", TOption(THashMap(TI32))),
    Skip("user", TOption(TString)),
    Skip("seed", TOption(TI64)),
    Skip("tools", TOption(TVec(TRef("Tool")))),
    Field("tool_choice", "tool_choice", TOption(TRef("ToolChoiceType")), TRUE, "serialize_tool_choice"),
    Skip("prettify_tools", TOption(TBool)),
    Skip("structure_output_decoding_mode", TOption(TString)),
    Skip("use_raw_output", TOption(TBool)),
    Skip("include_thinking", TOption(TBool)),
    Skip("empower_metadata", TOption(TRef("EmpowerMetadata")))>>]

Resolve(name) ==
    CASE name = "ToolType" -> ToolType
      [] name = "Function" -> Function
      [] name = "Tool" -> Tool
      [] name = "ToolChoiceType" -> ToolChoiceType
      [] name = "MessageRole" -> MessageRole
      [] name = "ImageUrlType" -> ImageUrlType
      [] name = "StructuredContent" -> StructuredContent
      [] name = "Content" -> Content
      [] name = "JSONSchemaType" -> JSONSchemaType
      [] name = "JSONSchemaDefine" -> JSONSchemaDefine
      [] name = "FinishReason" -> FinishReason
      [] name = "FinishDetails" -> FinishDetails
      [] name = "ToolCallFunction" -> ToolCallFunction
      [] name = "ToolCall" -> ToolCall
      [] name = "ChatCompletionMessage" -> ChatCompletionMessage
      [] name = "ChatCompletionMessageForResponse" -> ChatCompletionMessageForResponse
      [] name = "ChatCompletionChoice" -> ChatCompletionChoice
      [] name = "Usage" -> Usage
      [] name = "ChatCompletionResponse" -> ChatCompletionResponse
      [] name = "LoraRequest" -> LoraRequest
      [] name = "EmpowerMetadata" -> EmpowerMetadata
      [] name = "ChatCompletionRequest" -> ChatCompletionRequest

-----------------------------------------------------------------------------
(* Ordering of strings (Rust's Ord for String is bytewise): every string the *)
(* model uses as a map key, in ascending order.                              *)

StrOrder ==
    <<"1", "50256", "a", "age", "b", "c", "city", "description", "enum_values", "function",
      "items", "name", "parameters", "properties", "required", "type", "url", "x", "y", "z">>
StrRank(s) == CHOOSE i \in 1..Len(StrOrder) : StrOrder[i] = s
StrLess(a, b) == StrRank(a) < StrRank(b)

(* BTreeMap<String, V> as the sequence of its entries in iteration order. *)
BTreeMapNew == <<>>

BTreeMapInsertUnsorted(map, key, val) ==
    IF \E i \in 1..Len(map) : map[i].key = key
    THEN [i \in 1..Len(map) |-> IF map[i].key = key THEN Member(key, val) ELSE map[i]]
    ELSE Append(map, Member(key, val))

BTreeMapInsert(map, key, val) ==
    IF \E i \in 1..Len(map) : map[i].key = key
    THEN [i \in 1..Len(map) |-> IF map[i].key = key THEN Member(key, val) ELSE map[i]]
    ELSE LET below == Cardinality({i \in 1..Len(map) : StrLess(map[i].key, key)})
         IN  SubSeq(map, 1, below) \o <<Member(key, val)>> \o SubSeq(map, below + 1, Len(map))

(* HashMap<String, V> as the function from its keys to their values; it  *)
(* has no order of its own.  An iteration yields the entries in the order *)
(* its hasher gives them, which is any order of the keys.                 *)
HashMapNew == <<>>
HashMapInsert(map, key, val) == (key :> val) @@ map

HashKeys == {"1", "50256"}
HashOrders == {h \in [1..Cardinality(HashKeys) -> HashKeys] : \A a, b \in DOMAIN h : h[a] = h[b] => a = b}
HashMapIter(map) ==
    LET Held(key) == key \in DOMAIN map
        order == SelectSeq(hasher, Held)
    IN  [i \in 1..Len(order) |-> Member(order[i], map[order[i]])]

(* serde_json::Value read from a document: an object is a Map, which holds *)
(* one value per key (the last one written) and yields its keys ascending. *)
RECURSIVE ValueOf(_), ValueMap(_, _, _)
ValueMap(members, i, map) ==
    IF i > Len(members) THEN map
    ELSE ValueMap(members, i + 1, BTreeMapInsert(map, members[i].key, ValueOf(members[i].val)))
ValueOf(j) ==
    CASE j.k = "array" -> JArr([i \in 1..Len(j.e) |-> ValueOf(j.e[i])])
      [] j.k = "object" -> JObj(ValueMap(j.m, 1, BTreeMapNew))
      [] OTHER -> j

-----------------------------------------------------------------------------
(* Values in memory.  A struct is the function from its field names to their *)
(* values; a unit-only enum is the name of its variant; an enum with data is *)
(* the record of "variant" and the variant's fields.                         *)

PlainText(s) == [variant |-> "PlainText", text |-> s]
Structured(blocks) == [variant |-> "Structured", blocks |-> blocks]

VariantByRust(variants, rust) == variants[CHOOSE i \in 1..Len(variants) : variants[i].rust = rust]
VariantByWire(variants, w) == variants[CHOOSE i \in 1..Len(variants) : variants[i].wire = w]
WireNames(variants) == {variants[i].wire : i \in 1..Len(variants)}
FieldNames(fields) == {fields[i].field : i \in 1..Len(fields)}
FieldAt(fields, name) == CHOOSE i \in 1..Len(fields) : fields[i].field = name

-----------------------------------------------------------------------------
(* Serialization *)

RECURSIVE Serialize(_, _), SerializeFields(_, _, _), Content_serialize(_), serialize_tool_choice(_)

Content_serialize_null_when_empty(self) ==
    IF self.variant = "PlainText"
    THEN JStr(self.text)
    ELSE IF self.blocks = <<>> THEN JNull
         ELSE JArr([i \in 1..Len(self.blocks) |-> Serialize(TRef("StructuredContent"), self.blocks[i])])

(* impl Serialize for Content *)
Content_serialize(self) ==
    IF self.variant = "PlainText"
    THEN JStr(self.text)
    ELSE JArr([i \in 1..Len(self.blocks) |-> Serialize(TRef("StructuredContent"), self.blocks[i])])

serialize_tool_choice_nested(value) ==
    IF ~value.some THEN JNull
    ELSE IF value.v.variant = "ToolChoice"
         THEN JObj(<<Member("tool", Serialize(TRef("Tool"), value.v.tool))>>)
         ELSE JStr(value.v.variant)

serialize_tool_choice(value) ==
    CASE ~value.some -> JNull
      [] value.some /\ value.v.variant = "None" -> JStr("none")
      [] value.some /\ value.v.variant = "Auto" -> JStr("auto")
      [] value.some /\ value.v.variant = "Any" -> JStr("any")
      [] value.some /\ value.v.variant = "ToolChoice" ->
            JObj(<<Member("type", Serialize(TRef("ToolType"), value.v.tool["type"])),
                   Member("function", Serialize(TRef("Function"), value.v.tool["function"]))>>)

SkipsNothing(f, x) == FALSE

(* #[serde(skip_serializing_if = "Option::is_none")] *)
SkipsField(f, x) == f.skip /\ ~x.some

(* The members a derived Serialize writes for fields[i..], in declaration order *)
SerializeFields(fields, v, i) ==
    IF i > Len(fields) THEN <<>>
    ELSE LET f == fields[i]
             x == v[f.field]
         IN  IF SkipsField(f, x)
             THEN SerializeFields(fields, v, i + 1)
             ELSE <<Member(f.key, IF f.with = "serialize_tool_choice"
                                  THEN serialize_tool_choice(x)
                                  ELSE Serialize(f.ty, x))>>
                  \o SerializeFields(fields, v, i + 1)

Serialize(t, v) ==
    CASE t.kind = "String" -> JStr(v)
      [] t.kind \in {"i32", "i64", "usize"} -> JNum(v)
      [] t.kind = "f64" -> IF v.float = "finite" THEN JFloat(v.tenths) ELSE JNull
      [] t.kind = "bool" -> JBool(v)
      [] t.kind = "Value" -> ValueOf(v)
      [] t.kind = "Option" -> IF v.some THEN Serialize(t.of, v.v) ELSE JNull
      [] t.kind = "Vec" -> JArr([i \in 1..Len(v) |-> Serialize(t.of, v[i])])
      [] t.kind = "Box" -> Serialize(t.of, v)
      [] t.kind = "BTreeMap" ->
            JObj([i \in 1..Len(v) |-> Member(v[i].key, Serialize(t.of, v[i].val))])
      [] t.kind = "HashMap" ->
            LET entries == HashMapIter(v)
            IN  JObj([i \in 1..Len(entries) |-> Member(entries[i].key, Serialize(t.of, entries[i].val))])
      [] t.kind = "ref" -> Serialize(Resolve(t.name), v)
      [] t.kind = "struct" -> JObj(SerializeFields(t.fields, v, 1))
      [] t.kind = "enum" -> JStr(VariantByRust(t.variants, v).wire)
      [] t.kind = "internally_tagged" ->
            LET var == VariantByRust(t.variants, v.variant)
            IN  JObj(<<Member(t.tag, JStr(var.wire))>> \o SerializeFields(var.fields, v, 1))
      [] t.kind = "externally_tagged" ->
            LET var == VariantByRust(t.variants, v.variant)
            IN  IF var.fields = <<>> THEN JStr(var.wire)
                ELSE JObj(<<Member(var.wire, JObj(SerializeFields(var.fields, v, 1)))>>)
      [] t.kind = "Content" -> Content_serialize(v)

-----------------------------------------------------------------------------
(* Deserialization.  de names the Deserializer a value is read from:        *)
(* "serde_json" for the text of the document, "content" for the buffered    *)
(* members of an internally tagged enum (serde's ContentDeserializer).  The *)
(* two accept the same documents and differ in the error they report.       *)

RECURSIVE Deserialize(_, _, _), DeserializeSeq(_, _, _, _, _), DeserializeMap(_, _, _, _, _, _),
          VisitMap(_, _, _, _, _), VisitSeq(_, _, _, _, _), Content_deserialize(_, _)

MissingIsDefault(f) == TRUE

(* A field left out of the document: Option<T> becomes None, anything else *)
(* is the error missing field.                                             *)
MissingIsNone(f) == f.ty.kind = "Option"

(* The struct built from the slots a visitor filled: acc[n] is None or *)
(* Some(value) for fields[n].                                          *)
BuildStruct(fields, acc) ==
    LET missing == {n \in 1..Len(fields) : ~acc[n].some /\ ~MissingIsNone(fields[n])}
    IN  IF missing # {}
        THEN Err("missing_field", fields[CHOOSE n \in missing : \A h \in missing : n <= h].key)
        ELSE Ok([name \in FieldNames(fields) |->
                    LET n == FieldAt(fields, name)
                    IN  IF acc[n].some THEN acc[n].v ELSE None])

(* visit_map of a derived struct: members[i..] in document order; a key that *)
(* names no field is ignored, a field met twice is an error.                 *)
VisitMap(de, fields, members, i, acc) ==
    IF i > Len(members) THEN BuildStruct(fields, acc)
    ELSE LET hit == {n \in 1..Len(fields) : fields[n].key = members[i].key}
         IN  IF hit = {} THEN VisitMap(de, fields, members, i + 1, acc)
             ELSE LET n == CHOOSE n \in hit : TRUE
                  IN  IF acc[n].some THEN Err("duplicate_field", fields[n].key)
                      ELSE LET r == Deserialize(de, fields[n].ty, members[i].val)
                           IN  IF ~r.ok THEN r
                               ELSE VisitMap(de, fields, members, i + 1, [acc EXCEPT ![n] = Some(r.val)])

(* visit_seq of a derived struct: the fields by position.  Elements left    *)
(* over after the last field are trailing characters to serde_json's        *)
(* end_seq and an invalid length to the buffered sequence.                  *)
VisitSeq(de, fields, elems, n, acc) ==
    IF n > Len(fields)
    THEN IF Len(elems) > Len(fields)
         THEN IF de = "serde_json" THEN Err("syntax", "trailing characters")
              ELSE Err("invalid_length", "trailing elements")
         ELSE BuildStruct(fields, acc)
    ELSE IF n > Len(elems) THEN Err("invalid_length", fields[n].key)
         ELSE LET r == Deserialize(de, fields[n].ty, elems[n])
              IN  IF ~r.ok THEN r
                  ELSE VisitSeq(de, fields, elems, n + 1, [acc EXCEPT ![n] = Some(r.val)])

Unfilled(fields) == [n \in 1..Len(fields) |-> None]

DeserializeStruct(de, fields, j) ==
    CASE j.k = "object" -> VisitMap(de, fields, j.m, 1, Unfilled(fields))
      [] j.k = "array" -> VisitSeq(de, fields, j.e, 1, Unfilled(fields))
      [] OTHER -> Err("invalid_type", j.k)

(* Vec<T>: the elements in order, the first failure ends the decode *)
DeserializeSeq(de, t, elems, i, acc) ==
    IF i > Len(elems) THEN Ok(acc)
    ELSE LET r == Deserialize(de, t, elems[i])
         IN  IF ~r.ok THEN r ELSE DeserializeSeq(de, t, elems, i + 1, Append(acc, r.val))

(* BTreeMap<String, T> and HashMap<String, T>: the members in document *)
(* order, each inserted under its key                                  *)
DeserializeMap(de, kind, t, members, i, acc) ==
    IF i > Len(members) THEN Ok(acc)
    ELSE LET r == Deserialize(de, t, members[i].val)
         IN  IF ~r.ok THEN r
             ELSE DeserializeMap(de, kind, t, members, i + 1,
                                 IF kind = "BTreeMap"
                                 THEN BTreeMapInsert(acc, members[i].key, r.val)
                                 ELSE HashMapInsert(acc, members[i].key, r.val))

(* i32, i64 and usize take an integer literal within their range.  The     *)
(* integers of this model are 32 bits wide, so every literal it can write   *)
(* lies within i64.                                                         *)
InRange(kind, n) ==
    CASE kind = "i32" -> n >= -2147483647 - 1 /\ n <= 2147483647
      [] kind = "i64" -> TRUE
      [] kind = "usize" -> n >= 0

DeserializeInteger(kind, j) ==
    IF j.k # "number" THEN Err("invalid_type", j.k)
    ELSE IF ~IsInteger(j) THEN Err("invalid_type", "float")
         ELSE IF InRange(kind, j.n) THEN Ok(j.n) ELSE Err("invalid_value", "integer")

(* f64 takes either kind of literal *)
DeserializeFloat(j) ==
    IF j.k # "number" THEN Err("invalid_type", j.k)
    ELSE IF IsInteger(j) THEN Ok(Finite(10 * j.n)) ELSE Ok(Finite(j.tenths))

(* The variant a tag names: only a JSON string is an identifier *)
VariantIdentifier(variants, j) ==
    IF j.k # "string" THEN Err("invalid_type", j.k)
    ELSE IF j.s \in WireNames(variants) THEN Ok(VariantByWire(variants, j.s))
         ELSE Err("unknown_variant", j.s)

WithVariant(rust, r) ==
    IF ~r.ok THEN r ELSE Ok(("variant" :> rust) @@ r.val)

(* Where serde_json's deserialize_enum finds no enum (neither a string nor *)
(* an object of one member) it reports the syntax error "expected value"; *)
(* the buffered form reports the kind of what it found.                    *)
NotAnEnum(de, kind, what) ==
    IF de = "serde_json" THEN Err("syntax", "expected value") ELSE Err(kind, what)

(* An enum of unit variants only, and an externally tagged enum in general: *)
(* "Variant", or the object {"Variant": content} with exactly one member.   *)
DeserializeExternallyTagged(de, variants, unitOnly, j) ==
    CASE j.k = "string" ->
            LET id == VariantIdentifier(variants, j)
            IN  IF ~id.ok THEN id
                ELSE IF unitOnly THEN Ok(id.val.rust)
                     ELSE IF id.val.fields = <<>> THEN Ok([variant |-> id.val.rust])
                          ELSE Err("invalid_type", "unit variant")
      [] j.k = "object" ->
            IF Len(j.m) = 0 THEN NotAnEnum(de, "invalid_value", "empty object")
            ELSE LET id == VariantIdentifier(variants, JStr(j.m[1].key))
                     content == j.m[1].val
                 IN  IF ~id.ok THEN id
                     ELSE IF unitOnly \/ id.val.fields = <<>>
                          THEN IF content.k # "null" THEN Err("invalid_type", content.k)
                               ELSE IF Len(j.m) > 1 THEN NotAnEnum(de, "invalid_value", "more than one variant")
                                    ELSE IF unitOnly THEN Ok(id.val.rust) ELSE Ok([variant |-> id.val.rust])
                          ELSE LET r == WithVariant(id.val.rust, DeserializeStruct(de, id.val.fields, content))
                               IN  IF ~r.ok THEN r
                                   ELSE IF Len(j.m) > 1 THEN NotAnEnum(de, "invalid_value", "more than one variant")
                                        ELSE r
      [] OTHER -> NotAnEnum(de, "invalid_type", j.k)

(* #[serde(tag = ...)]: the derived impl buffers the element through        *)
(* deserialize_any and reads the variant's fields from the buffer.  For an  *)
(* object the tag is looked for among the members and the other members are *)
(* the variant's fields; for an array (the positional form serde's tagged   *)
(* visitor also takes) the first element is the tag and the following ones  *)
(* are the variant's fields in order.  Any other JSON kind is an invalid    *)
(* type.                                                                    *)
TagMembers(tag, members) == {i \in 1..Len(members) : members[i].key = tag}
WithoutTag(tag, members) ==
    LET keep == {i \in 1..Len(members) : members[i].key # tag}
        RECURSIVE Pick(_)
        Pick(i) == IF i > Len(members) THEN <<>>
                   ELSE IF i \in keep THEN <<members[i]>> \o Pick(i + 1) ELSE Pick(i + 1)
    IN  Pick(1)

DeserializeInternallyTagged(tag, variants, j) ==
    CASE j.k = "object" ->
            LET tags == TagMembers(tag, j.m)
            IN  IF tags = {} THEN Err("missing_field", tag)
                ELSE LET first == CHOOSE i \in tags : \A h \in tags : i <= h
                         id == VariantIdentifier(variants, j.m[first].val)
                     IN  IF ~id.ok THEN id
                         ELSE IF Cardinality(tags) > 1 THEN Err("duplicate_field", tag)
                              ELSE WithVariant(id.val.rust,
                                       VisitMap("content", id.val.fields, WithoutTag(tag, j.m), 1,
                                                Unfilled(id.val.fields)))
      [] j.k = "array" ->
            IF Len(j.e) = 0 THEN Err("missing_field", tag)
            ELSE LET id == VariantIdentifier(variants, j.e[1])
                 IN  IF ~id.ok THEN id
                     ELSE WithVariant(id.val.rust,
                              VisitSeq("content", id.val.fields, Tail(j.e), 1, Unfilled(id.val.fields)))
      [] OTHER -> Err("invalid_type", j.k)

(* impl Deserialize for Content: ContentVisitor has visit_str and visit_seq *)
Content_deserialize(de, j) ==
    CASE j.k = "string" -> Ok(PlainText(j.s))
      [] j.k = "array" ->
            LET r == DeserializeSeq(de, TRef("StructuredContent"), j.e, 1, <<>>)
            IN  IF ~r.ok THEN r ELSE Ok(Structured(r.val))
      [] OTHER -> Err("invalid_type", j.k)

Deserialize(de, t, j) ==
    CASE t.kind = "String" -> IF j.k = "string" THEN Ok(j.s) ELSE Err("invalid_type", j.k)
      [] t.kind \in {"i32", "i64", "usize"} -> DeserializeInteger(t.kind, j)
      [] t.kind = "f64" -> DeserializeFloat(j)
      [] t.kind = "bool" -> IF j.k = "bool" THEN Ok(j.b) ELSE Err("invalid_type", j.k)
      [] t.kind = "Value" -> Ok(ValueOf(j))
      [] t.kind = "Option" ->
            IF j.k = "null" THEN Ok(None)
            ELSE LET r == Deserialize(de, t.of, j) IN IF ~r.ok THEN r ELSE Ok(Some(r.val))
      [] t.kind = "Vec" ->
            IF j.k = "array" THEN DeserializeSeq(de, t.of, j.e, 1, <<>>) ELSE Err("invalid_type", j.k)
      [] t.kind = "Box" -> Deserialize(de, t.of, j)
      [] t.kind = "BTreeMap" ->
            IF j.k = "object" THEN DeserializeMap(de, t.kind, t.of, j.m, 1, BTreeMapNew)
            ELSE Err("invalid_type", j.k)
      [] t.kind = "HashMap" ->
            IF j.k = "object" THEN DeserializeMap(de, t.kind, t.of, j.m, 1, HashMapNew)
            ELSE Err("invalid_type", j.k)
      [] t.kind = "ref" -> Deserialize(de, Resolve(t.name), j)
      [] t.kind = "struct" -> DeserializeStruct(de, t.fields, j)
      [] t.kind = "enum" -> DeserializeExternallyTagged(de, t.variants, TRUE, j)
      [] t.kind = "externally_tagged" -> DeserializeExternallyTagged(de, t.variants, FALSE, j)
      [] t.kind = "internally_tagged" -> DeserializeInternallyTagged(t.tag, t.variants, j)
      [] t.kind = "Content" -> Content_deserialize(de, j)

-----------------------------------------------------------------------------
(* Bounds and the inputs drawn within them *)

MaxBlocks == 2

SeqsUpTo(S, n) == UNION {[1..m -> S] : m \in 0..n}

NoValue == [absent |-> TRUE]
NoJson == [k |-> "nothing"]
NoResult == [pending |-> TRUE]

Texts == {"", "hi"}
Urls == {"u"}

Text(t) == [variant |-> "Text", text |-> t]
ImageUrl(u) == [variant |-> "ImageUrl", image_url |-> [url |-> u]]

Blocks == {Text(t) : t \in Texts} \cup {ImageUrl(u) : u \in Urls}

ContentValues == {PlainText(t) : t \in Texts} \cup {Structured(b) : b \in SeqsUpTo(Blocks, MaxBlocks)}

TextDoc(t) == JObj(<<Member("type", JStr("text")), Member("text", JStr(t))>>)
ImageUrlDoc(u) == JObj(<<Member("type", JStr("image_url")),
                         Member("image_url", JObj(<<Member("url", JStr(u))>>))>>)

(* Array elements a peer may send: the two block shapes, and malformed ones *)
ElementDocs ==
    { TextDoc("hi"),
      ImageUrlDoc("u"),
      JObj(<<Member("text", JStr("hi")), Member("type", JStr("text"))>>),
      JObj(<<Member("type", JStr("text")), Member("text", JStr("hi")), Member("detail", JNull)>>),
      JObj(<<Member("type", JStr("video")), Member("text", JStr("hi"))>>),
      JObj(<<Member("type", JStr("Text")), Member("text", JStr("hi"))>>),
      JObj(<<Member("text", JStr("hi"))>>),
      JObj(<<Member("type", JStr("text"))>>),
      JObj(<<Member("type", JStr("text")), Member("text", JNum(5))>>),
      JObj(<<Member("type", JStr("image_url")), Member("image_url", JObj(<<>>))>>),
      JObj(<<Member("type", JNum(0)), Member("text", JStr("hi"))>>),
      JArr(<<JStr("text"), JStr("hi")>>),
      JStr("hi"),
      JNull }

ContentDocs ==
    {JStr(t) : t \in Texts}
    \cup {JNum(5), JBool(TRUE), JNull, JObj(<<>>), TextDoc("hi")}
    \cup {JArr(e) : e \in SeqsUpTo(ElementDocs, MaxBlocks)}

(* A schema tree as its caller builds it: each node's properties are given *)
(* as the sequence of (key, child) insertions into an empty BTreeMap.      *)
SchemaNode(t, d, e, p, r, i) ==
    [schema_type |-> t, description |-> d, enum_values |-> e, properties |-> p, required |-> r, items |-> i]

RECURSIVE BuildSchema(_), InsertAll(_, _, _)
InsertAll(ins, i, map) ==
    IF i > Len(ins) THEN map
    ELSE InsertAll(ins, i + 1, BTreeMapInsert(map, ins[i].key, BuildSchema(ins[i].val)))
BuildSchema(r) ==
    [r EXCEPT !.properties = IF r.properties.some THEN Some(InsertAll(r.properties.v, 1, BTreeMapNew)) ELSE None,
              !.items = IF r.items.some THEN Some(BuildSchema(r.items.v)) ELSE None]

MaxProps == 2
MaxDepth == 2

PropKeys == {"age", "city", "name"}

LeafRecipes ==
    { SchemaNode(Some("String"), None, None, None, None, None),
      SchemaNode(Some("Number"), Some("d"), None, None, None, None),
      SchemaNode(Some("String"), None, Some(<<"x", "y">>), None, None, None),
      SchemaNode(None, None, None, None, None, None) }

ObjectRecipes(children) ==
    {SchemaNode(Some("Object"), None, None, Some(ins), None, None) :
        ins \in SeqsUpTo({Member(key, c) : key \in PropKeys, c \in children}, MaxProps)}

NestedRecipes ==
    { SchemaNode(Some("Object"), None, None,
                 Some(<<Member("name", SchemaNode(Some("String"), None, None, None, None, None)),
                        Member("age", SchemaNode(Some("Number"), None, None, None, None, None))>>),
                 Some(<<"name">>), None),
      SchemaNode(Some("Array"), None, None, None, None,
                 Some(SchemaNode(Some("String"), None, None, None, None, None))),
      SchemaNode(Some("Object"), None, None, Some(<<>>), Some(<<>>), None) }

RECURSIVE SchemaRecipes(_)
SchemaRecipes(d) ==
    IF d = 0 THEN LeafRecipes
    ELSE IF d = 1 THEN LeafRecipes \cup NestedRecipes \cup ObjectRecipes(LeafRecipes)
         ELSE SchemaRecipes(d - 1) \cup ObjectRecipes(NestedRecipes)
              \cup {SchemaNode(Some("Array"), None, None, None, None, Some(c)) : c \in SchemaRecipes(d - 1)}

(* Schema documents a peer may send *)
TypeMembers ==
    {<<>>, <<Member("type", JNull)>>, <<Member("type", JNum(5))>>}
    \cup {<<Member("type", JStr(t))>> : t \in {"object", "number", "string", "array", "null", "boolean", "bogus", "Object"}}

WrapperTypeMembers == {<<>>, <<Member("type", JStr("object"))>>, <<Member("type", JStr("array"))>>}

LeafDocs ==
    {JObj(tm \o extra) : tm \in TypeMembers, extra \in {<<>>, <<Member("description", JStr("d"))>>}}
    \cup {JObj(<<Member("description", JStr("d")), Member("type", JStr("string")),
                 Member("enum_values", JArr(<<JStr("x")>>)), Member("required", JArr(<<>>))>>)}

RECURSIVE SchemaDocs(_)
SchemaDocs(d) ==
    IF d = 0 THEN LeafDocs
    ELSE SchemaDocs(d - 1)
         \cup {JObj(tm \o <<Member("properties", JObj(<<Member("name", c)>>))>>) :
                  tm \in WrapperTypeMembers, c \in SchemaDocs(d - 1)}
         \cup {JObj(tm \o <<Member("items", c)>>) : tm \in WrapperTypeMembers, c \in SchemaDocs(d - 1)}
         \cup {JObj(<<Member("properties", JObj(<<Member("name", c), Member("age", JObj(<<Member("type", JStr("number"))>>))>>)),
                      Member("type", JStr("object"))>>) : c \in SchemaDocs(d - 1)}

(* Messages *)
SampleToolCall == [id |-> "call_1", type |-> "function",
                   function |-> [name |-> Some("f"), arguments |-> Some("{}")]]

Message(role, content, tool_calls, tool_call_id) ==
    [role |-> role, content |-> content, tool_calls |-> tool_calls, tool_call_id |-> tool_call_id]

MessageValues ==
    {Message(r, c, t, i) :
        r \in {"user", "assistant", "tool"},
        c \in {None} \cup {Some(v) : v \in ContentValues},
        t \in {None, Some(<<>>), Some(<<SampleToolCall>>)},
        i \in {None, Some("call_1")}}

MessageSeqs ==
    { <<>>,
      <<Message("user", Some(PlainText("hi")), None, None)>>,
      <<Message("user", Some(Structured(<<Text("hi"), ImageUrl("u")>>)), None, None),
        Message("assistant", None, Some(<<SampleToolCall>>), None)>> }

(* Requests: model and messages, and at most MaxSetFields optional fields set *)
MaxSetFields == 2

RECURSIVE SubsetsUpTo(_, _)
SubsetsUpTo(S, n) ==
    IF n = 0 THEN {{}}
    ELSE LET smaller == SubsetsUpTo(S, n - 1)
         IN  smaller \cup {T \cup {x} : T \in smaller, x \in S}

ParameterDocs == {JNull, JObj(<<Member("type", JStr("object"))>>)}

Tools ==
    {[type |-> "Function", function |-> [name |-> "f", description |-> d, parameters |-> p]] :
        d \in {None, Some("d")}, p \in ParameterDocs}

ToolChoiceValues ==
    {[variant |-> "None"], [variant |-> "Auto"], [variant |-> "Any"]}
    \cup {[variant |-> "ToolChoice", tool |-> t] : t \in Tools}

DefaultEmpowerMetadata ==
    [id |-> "", lora_request |-> None, use_beam_search |-> None, best_of |-> None,
     tools_only |-> None, tools_enabled |-> None, conversation_json_schema |-> None,
     tools_json_schema |-> None, num_cached_prefix_messages |-> None, logprobs |-> None,
     ignore_eos |-> FALSE, skip_chat_template |-> FALSE]

OptionalRequestFields ==
    {"temperature", "top_p", "n", "response_format", "stream", "stop", "max_tokens",
     "presence_penalty", "frequency_penalty", "logit_bias", "user", "seed", "tools",
     "tool_choice", "prettify_tools", "structure_output_decoding_mode", "use_raw_output",
     "include_thinking", "empower_metadata"}

FloatValues == {Finite(5), Finite(10), NaN, Infinity}

SampleValue(f, choice, x) ==
    CASE f \in {"temperature", "top_p", "presence_penalty", "frequency_penalty"} -> x
      [] f \in {"n", "max_tokens", "seed"} -> 16
      [] f = "response_format" -> JObj(<<Member("type", JStr("json_object"))>>)
      [] f \in {"stream", "prettify_tools", "use_raw_output", "include_thinking"} -> TRUE
      [] f = "stop" -> <<"END">>
      [] f = "logit_bias" -> HashMapInsert(HashMapInsert(HashMapNew, "50256", -100), "1", 5)
      [] f \in {"user", "structure_output_decoding_mode"} -> "u"
      [] f = "tools" -> <<[type |-> "Function",
                           function |-> [name |-> "f", description |-> None, parameters |-> JNull]]>>
      [] f = "tool_choice" -> choice
      [] f = "empower_metadata" -> DefaultEmpowerMetadata

(* ChatCompletionRequest::new(model, messages), then the setters of the *)
(* fields in `set`                                                      *)
Request(model, messages, set, choice, x) ==
    [f \in {"model", "messages"} \cup OptionalRequestFields |->
        CASE f = "model" -> model
          [] f = "messages" -> messages
          [] OTHER -> IF f \in set THEN Some(SampleValue(f, choice, x)) ELSE None]

RequestValues ==
    {Request("m", msgs, set, choice, x) :
        msgs \in MessageSeqs,
        set \in SubsetsUpTo(OptionalRequestFields, MaxSetFields),
        choice \in ToolChoiceValues,
        x \in FloatValues}

RequestDoc(extra) ==
    JObj(<<Member("model", JStr("m")), Member("messages", JArr(<<>>))>> \o extra)

SampleToolDoc ==
    JObj(<<Member("type", JStr("function")),
           Member("function", JObj(<<Member("name", JStr("f")), Member("parameters", JNull)>>))>>)

EmpowerMetadataDoc(extra) ==
    JObj(<<Member("id", JStr("")), Member("ignore_eos", JBool(FALSE)),
           Member("skip_chat_template", JBool(FALSE))>> \o extra)

(* Numbers a peer may send for the fields of each width *)
NumberMembers ==
    {Member("temperature", n) : n \in {JNum(1), JFloat(5), JNull, JStr("1")}}
    \cup {Member("seed", n) : n \in {JNum(16), JNum(-1), JFloat(15)}}
    \cup {Member("empower_metadata", EmpowerMetadataDoc(<<Member(f, n)>>)) :
            f \in {"best_of", "logprobs", "num_cached_prefix_messages"}, n \in {JNum(2), JNum(-1), JFloat(15)}}

(* Objects a peer may send for the two maps of a request *)
MapMembers ==
    {Member("logit_bias", JObj(m)) :
        m \in {<<>>, <<Member("50256", JNum(-100)), Member("1", JNum(5))>>,
                <<Member("1", JNum(5)), Member("50256", JNum(-100)), Member("1", JNum(7))>>,
                <<Member("1", JFloat(5))>>}}
    \cup {Member("response_format", v) :
            v \in {JObj(<<Member("b", JNum(1)), Member("a", JNum(2)), Member("b", JNum(3))>>),
                    JArr(<<JObj(<<Member("y", JNull), Member("x", JFloat(5))>>)>>)}}

RequestDocs ==
    {RequestDoc(<<>>)}
    \cup {RequestDoc(<<Member("tool_choice", c)>>) :
            c \in {JStr("none"), JStr("auto"), JStr("any"), JStr("None"), JStr("Auto"), JStr("Any"),
                   JStr("NONE"), JStr("required"), JNull, JNum(1), SampleToolDoc,
                   JObj(<<Member("ToolChoice", JObj(<<Member("tool", SampleToolDoc)>>))>>),
                   JObj(<<Member("tool", SampleToolDoc)>>)}}
    \cup {RequestDoc(<<m>>) : m \in NumberMembers \cup MapMembers}

(* Responses *)
MaxChoices == 1

MessageForResponseDoc == JObj(<<Member("role", JStr("assistant")), Member("content", JStr("hi"))>>)
FinishDetailsDoc == JObj(<<Member("type", JStr("stop")), Member("stop", JStr("x"))>>)
UsageDoc == JObj(<<Member("prompt_tokens", JNum(1)), Member("completion_tokens", JNum(1)),
                   Member("total_tokens", JNum(2))>>)

Maybe(member) == {<<>>, <<member>>}

ChoiceDocs ==
    {JObj(index \o message \o reason \o details) :
        index \in Maybe(Member("index", JNum(0))),
        message \in Maybe(Member("message", MessageForResponseDoc)),
        reason \in {<<>>} \cup {<<Member("finish_reason", r)>> : r \in {JStr("stop"), JStr("null"), JNull}},
        details \in Maybe(Member("finish_details", FinishDetailsDoc))}

ResponseDocs ==
    {JObj(id \o model \o choices \o usage \o fingerprint) :
        id \in Maybe(Member("id", JStr("chatcmpl-1"))),
        model \in Maybe(Member("model", JStr("m"))),
        choices \in {<<>>} \cup {<<Member("choices", JArr(c))>> : c \in SeqsUpTo(ChoiceDocs, MaxChoices)},
        usage \in Maybe(Member("usage", UsageDoc)),
        fingerprint \in Maybe(Member("system_fingerprint", JStr("fp")))}

-----------------------------------------------------------------------------
(* The state machine: a value is built in memory and serialized, or a        *)
(* document arrives, and the document on the wire is then deserialized.      *)

Init ==
    /\ pc = "init"
    /\ res = NoResult
    /\ hasher \in HashOrders
    /\ \/ ty = "Content" /\ inserts = NoValue /\ mem \in ContentValues /\ wire = NoJson
       \/ ty = "Content" /\ inserts = NoValue /\ mem = NoValue /\ wire \in ContentDocs
       \/ ty = "JSONSchemaDefine" /\ inserts \in SchemaRecipes(MaxDepth)
                                  /\ mem = BuildSchema(inserts) /\ wire = NoJson
       \/ ty = "JSONSchemaDefine" /\ inserts = NoValue /\ mem = NoValue /\ wire \in SchemaDocs(MaxDepth)
       \/ ty = "ChatCompletionMessage" /\ inserts = NoValue /\ mem \in MessageValues /\ wire = NoJson
       \/ ty = "ChatCompletionRequest" /\ inserts = NoValue /\ mem \in RequestValues /\ wire = NoJson
       \/ ty = "ChatCompletionRequest" /\ inserts = NoValue /\ mem = NoValue /\ wire \in RequestDocs
       \/ ty = "ChatCompletionResponse" /\ inserts = NoValue /\ mem = NoValue /\ wire \in ResponseDocs

SerializeContent ==
    /\ pc = "init" /\ ty = "Content" /\ mem # NoValue
    /\ wire' = Serialize(TRef("Content"), mem)
    /\ pc' = "serialized"
    /\ UNCHANGED <<ty, inserts, mem, res, hasher>>

DeserializeContent ==
    /\ pc \in {"init", "serialized"} /\ ty = "Content" /\ wire # NoJson
    /\ res' = Deserialize("serde_json", TRef("Content"), wire)
    /\ pc' = "deserialized"
    /\ UNCHANGED <<ty, inserts, mem, wire, hasher>>

SerializeSchema ==
    /\ pc = "init" /\ ty = "JSONSchemaDefine" /\ mem # NoValue
    /\ wire' = Serialize(TRef("JSONSchemaDefine"), mem)
    /\ pc' = "serialized"
    /\ UNCHANGED <<ty, inserts, mem, res, hasher>>

DeserializeSchema ==
    /\ pc \in {"init", "serialized"} /\ ty = "JSONSchemaDefine" /\ wire # NoJson
    /\ res' = Deserialize("serde_json", TRef("JSONSchemaDefine"), wire)
    /\ pc' = "deserialized"
    /\ UNCHANGED <<ty, inserts, mem, wire, hasher>>

SerializeMessage ==
    /\ pc = "init" /\ ty = "ChatCompletionMessage" /\ mem # NoValue
    /\ wire' = Serialize(TRef("ChatCompletionMessage"), mem)
    /\ pc' = "serialized"
    /\ UNCHANGED <<ty, inserts, mem, res, hasher>>

DeserializeMessage ==
    /\ pc \in {"init", "serialized"} /\ ty = "ChatCompletionMessage" /\ wire # NoJson
    /\ res' = Deserialize("serde_json", TRef("ChatCompletionMessage"), wire)
    /\ pc' = "deserialized"
    /\ UNCHANGED <<ty, inserts, mem, wire, hasher>>

SerializeRequest ==
    /\ pc = "init" /\ ty = "ChatCompletionRequest" /\ mem # NoValue
    /\ wire' = Serialize(TRef("ChatCompletionRequest"), mem)
    /\ pc' = "serialized"
    /\ UNCHANGED <<ty, inserts, mem, res, hasher>>

DeserializeRequest ==
    /\ pc \in {"init", "serialized"} /\ ty = "ChatCompletionRequest" /\ wire # NoJson
    /\ res' = Deserialize("serde_json", TRef("ChatCompletionRequest"), wire)
    /\ pc' = "deserialized"
    /\ UNCHANGED <<ty, inserts, mem, wire, hasher>>

DeserializeResponse ==
    /\ pc = "init" /\ ty = "ChatCompletionResponse" /\ wire # NoJson
    /\ res' = Deserialize("serde_json", TRef("ChatCompletionResponse"), wire)
    /\ pc' = "deserialized"
    /\ UNCHANGED <<ty, inserts, mem, wire, hasher>>

Next ==
    \/ SerializeContent
    \/ DeserializeContent
    \/ SerializeSchema
    \/ DeserializeSchema
    \/ SerializeMessage
    \/ DeserializeMessage
    \/ SerializeRequest
    \/ DeserializeRequest
    \/ DeserializeResponse

Spec == Init /\ [][Next]_vars

-----------------------------------------------------------------------------
(* Content *)

(* The shapes the decode contract of the content union names *)
IsTextObject(e) ==
    /\ e.k = "object" /\ HasKey(e, "type") /\ Get(e, "type") = JStr("text")
    /\ HasKey(e, "text") /\ Get(e, "text").k = "string"
IsImageUrlObject(e) ==
    /\ e.k = "object" /\ HasKey(e, "type") /\ Get(e, "type") = JStr("image_url")
    /\ HasKey(e, "image_url") /\ Get(e, "image_url").k = "object"
    /\ HasKey(Get(e, "image_url"), "url") /\ Get(Get(e, "image_url"), "url").k = "string"
IsBlockObject(e) == IsTextObject(e) \/ IsImageUrlObject(e)
BlockOf(e) ==
    IF IsTextObject(e) THEN Text(Get(e, "text").s)
    ELSE ImageUrl(Get(Get(e, "image_url"), "url").s)
IsBlockArray(j) == j.k = "array" /\ \A i \in 1..Len(j.e) : IsBlockObject(j.e[i])

ContentDecoded == pc = "deserialized" /\ ty = "Content"

(* C1: decoding as Content succeeds exactly for a JSON string, giving        *)
(* PlainText of it, and for an array of objects tagged "text" or             *)
(* "image_url", giving Structured of the blocks in order; every other        *)
(* document is a decode failure.                                             *)
C1_DecodeExactlyStringOrBlockArray ==
    ContentDecoded =>
        /\ res.ok <=> (wire.k = "string" \/ IsBlockArray(wire))
        /\ wire.k = "string" => res = Ok(PlainText(wire.s))
        /\ IsBlockArray(wire) => res = Ok(Structured([i \in 1..Len(wire.e) |-> BlockOf(wire.e[i])]))

(* C2: decode(encode(v)) = v for every Content value, and Structured([])     *)
(* is the empty array on the wire.                                           *)
C2_ContentRoundTrip ==
    (ContentDecoded /\ mem # NoValue) =>
        /\ res = Ok(mem)
        /\ mem = Structured(<<>>) => wire = JArr(<<>>)
        /\ mem.variant = "PlainText" => wire = JStr(mem.text)
        /\ mem.variant = "Structured" => wire.k = "array" /\ Len(wire.e) = Len(mem.blocks)

C2_Witness ==
    /\ ContentDecoded
    /\ mem = Structured(<<Text("hi"), ImageUrl("u")>>)
    /\ wire = JArr(<<TextDoc("hi"), ImageUrlDoc("u")>>)
    /\ res = Ok(mem)

-----------------------------------------------------------------------------
(* ParameterSchema (JSONSchemaDefine) *)

SixTags == {"object", "number", "string", "array", "null", "boolean"}
OptionalSchemaFields == {"description", "enum_values", "properties", "required", "items"}

(* The schema nodes of a document: the root, and every node reached through *)
(* the values of properties and through items.                              *)
RECURSIVE NodeDocs(_)
NodeDocs(j) ==
    IF j.k # "object" THEN {}
    ELSE {j}
         \cup (IF HasKey(j, "properties") /\ Get(j, "properties").k = "object"
               THEN UNION {NodeDocs(Get(j, "properties").m[i].val) : i \in 1..Len(Get(j, "properties").m)}
               ELSE {})
         \cup (IF HasKey(j, "items") THEN NodeDocs(Get(j, "items")) ELSE {})

(* The nodes of a decoded schema tree *)
RECURSIVE Nodes(_)
Nodes(v) ==
    {v}
    \cup (IF v.properties.some
          THEN UNION {Nodes(v.properties.v[i].val) : i \in 1..Len(v.properties.v)}
          ELSE {})
    \cup (IF v.items.some THEN Nodes(v.items.v) ELSE {})

SchemaDecoded == pc = "deserialized" /\ ty = "JSONSchemaDefine"
SchemaSerialized == pc = "serialized" /\ ty = "JSONSchemaDefine"

(* C5: a schema object without a type key, at the root or nested, fails to *)
(* decode with a missing-field error; no decoded node has its schema type  *)
(* unset.                                                                  *)
C5_MissingTypeFails ==
    SchemaDecoded =>
        /\ (\E n \in NodeDocs(wire) : ~HasKey(n, "type")) => (~res.ok /\ res.err = "missing_field")
        /\ res.ok => \A v \in Nodes(res.val) : v.schema_type.some

BadTags(j) ==
    {Get(n, "type").s : n \in {n \in NodeDocs(j) : HasKey(n, "type") /\ Get(n, "type").k = "string"
                                                   /\ Get(n, "type").s \notin SixTags}}
TypesAreStringsOrNull(j) ==
    \A n \in NodeDocs(j) : HasKey(n, "type") => Get(n, "type").k \in {"string", "null"}

(* C6: a type value that is a string other than the six lowercase tags, at  *)
(* the root or at a nested properties/items node, makes the decode fail,    *)
(* with an unknown-variant error naming it; the match is case-sensitive.    *)
C6_UnknownTypeTagFails ==
    (SchemaDecoded /\ BadTags(wire) # {}) =>
        /\ ~res.ok
        /\ TypesAreStringsOrNull(wire) => (res.err = "unknown_variant" /\ res.what \in BadTags(wire))

C6_Witness ==
    /\ SchemaDecoded
    /\ wire = JObj(<<Member("type", JStr("object")),
                     Member("properties", JObj(<<Member("name", JObj(<<Member("type", JStr("Object"))>>))>>))>>)
    /\ res = Err("unknown_variant", "Object")

(* Every way of inserting the same entries: each node's insertions permuted *)
Perms(n) == {p \in [1..n -> 1..n] : \A a, b \in 1..n : p[a] = p[b] => a = b}

RECURSIVE Rearrangements(_)
Rearrangements(r) ==
    LET items == IF r.items.some THEN {Some(c) : c \in Rearrangements(r.items.v)} ELSE {None}
        ins == r.properties.v
        n == Len(ins)
        kids == UNION {Rearrangements(ins[i].val) : i \in 1..n}
        props == IF ~r.properties.some THEN {None}
                 ELSE UNION {{Some([i \in 1..n |-> Member(ins[p[i]].key, c[i])]) :
                                 c \in {c \in [1..n -> kids] : \A i \in 1..n : c[i] \in Rearrangements(ins[p[i]].val)}} :
                             p \in Perms(n)}
    IN  {[r EXCEPT !.properties = q, !.items = it] : q \in props, it \in items}

RECURSIVE DistinctKeys(_)
DistinctKeys(r) ==
    /\ r.properties.some =>
          LET ins == r.properties.v
          IN  /\ \A a, b \in 1..Len(ins) : ins[a].key = ins[b].key => a = b
              /\ \A a \in 1..Len(ins) : DistinctKeys(ins[a].val)
    /\ r.items.some => DistinctKeys(r.items.v)

KeysAscending(j) ==
    \A n \in NodeDocs(j) :
        (HasKey(n, "properties") /\ Get(n, "properties").k = "object") =>
            LET m == Get(n, "properties").m
            IN  \A a, b \in 1..Len(m) : a < b => StrLess(m[a].key, m[b].key)

(* The optional fields of every node are on the wire exactly when set *)
RECURSIVE OmitsUnset(_, _)
OmitsUnset(v, j) ==
    /\ j.k = "object"
    /\ \A f \in OptionalSchemaFields : HasKey(j, f) <=> v[f].some
    /\ \A f \in OptionalSchemaFields : HasKey(j, f) => Get(j, f) # JNull
    /\ v.properties.some =>
          LET m == Get(j, "properties").m
          IN  /\ Len(m) = Len(v.properties.v)
              /\ \A i \in 1..Len(m) : OmitsUnset(v.properties.v[i].val, m[i].val)
    /\ v.items.some => OmitsUnset(v.items.v, Get(j, "items"))

(* C7: properties are written in ascending key order at every level, so the *)
(* same entries inserted in any order encode identically, and an unset      *)
(* description, enum_values, properties, required or items is left out.     *)
C7_PropertiesSortedAndUnsetOmitted ==
    SchemaSerialized =>
        /\ KeysAscending(wire)
        /\ DistinctKeys(inserts) =>
              \A r \in Rearrangements(inserts) : Serialize(TRef("JSONSchemaDefine"), BuildSchema(r)) = wire
        /\ OmitsUnset(mem, wire)

C7_Witness ==
    /\ SchemaSerialized
    /\ inserts = SchemaNode(Some("Object"), None, None,
                     Some(<<Member("name", SchemaNode(Some("String"), None, None, None, None, None)),
                            Member("age", SchemaNode(Some("Number"), None, None, None, None, None))>>),
                     Some(<<"name">>), None)
    /\ wire = JObj(<<Member("type", JStr("object")),
                     Member("properties", JObj(<<Member("age", JObj(<<Member("type", JStr("number"))>>)),
                                                 Member("name", JObj(<<Member("type", JStr("string"))>>))>>)),
                     Member("required", JArr(<<JStr("name")>>))>>)

-----------------------------------------------------------------------------
(* ChatCompletionRequest and tool_choice *)

RequestSerialized == pc = "serialized" /\ ty = "ChatCompletionRequest"
RequestDecoded == pc = "deserialized" /\ ty = "ChatCompletionRequest"
KeySeq(j) == [i \in 1..Len(j.m) |-> j.m[i].key]

FunctionDoc(f) ==
    JObj(<<Member("name", JStr(f.name))>>
         \o (IF f.description.some THEN <<Member("description", JStr(f.description.v))>> ELSE <<>>)
         \o <<Member("parameters", f.parameters)>>)

(* C3: on the wire tool_choice is "none", "auto" or "any" for the three     *)
(* plain variants, and for a selected tool the object with exactly the keys *)
(* type and function, holding the tool's kind and function, with no tool    *)
(* key.                                                                     *)
C3_ToolChoiceWireShape ==
    (RequestSerialized /\ mem.tool_choice.some) =>
        LET choice == mem.tool_choice.v
            sent == Get(wire, "tool_choice")
        IN  /\ HasKey(wire, "tool_choice")
            /\ choice.variant = "None" => sent = JStr("none")
            /\ choice.variant = "Auto" => sent = JStr("auto")
            /\ choice.variant = "Any" => sent = JStr("any")
            /\ choice.variant = "ToolChoice" =>
                  /\ sent.k = "object"
                  /\ KeySeq(sent) = <<"type", "function">>
                  /\ Get(sent, "type") = JStr("function")
                  /\ Get(sent, "function") = FunctionDoc(choice.tool["function"])

C3_Witness ==
    /\ RequestSerialized
    /\ mem.tool_choice.some /\ mem.tool_choice.v.variant = "ToolChoice"
    /\ mem.tool_choice.v.tool["function"].description = Some("d")
    /\ Get(wire, "tool_choice") =
          JObj(<<Member("type", JStr("function")),
                 Member("function", JObj(<<Member("name", JStr("f")), Member("description", JStr("d")),
                                           Member("parameters", JNull)>>))>>)

(* C4: what encoding writes for tool_choice decodes back to the same value, *)
(* "none", "auto" and "any" decode to None, Auto and Any, and an object     *)
(* with type and function decodes to the selected tool.                     *)
C4_ToolChoiceRoundTrip ==
    RequestDecoded =>
        /\ (mem # NoValue /\ mem.tool_choice.some) => (res.ok /\ res.val.tool_choice = mem.tool_choice)
        /\ (mem = NoValue /\ HasKey(wire, "tool_choice")) =>
              LET sent == Get(wire, "tool_choice")
              IN  /\ sent = JStr("none") => (res.ok /\ res.val.tool_choice = Some([variant |-> "None"]))
                  /\ sent = JStr("auto") => (res.ok /\ res.val.tool_choice = Some([variant |-> "Auto"]))
                  /\ sent = JStr("any") => (res.ok /\ res.val.tool_choice = Some([variant |-> "Any"]))
                  /\ (HasKey(sent, "type") /\ HasKey(sent, "function")) =>
                        (res.ok /\ res.val.tool_choice.some /\ res.val.tool_choice.v.variant = "ToolChoice")

(* C8: the keys of an encoded request are model, messages and the optional  *)
(* fields that are set, each once; no unset field is written, none as null  *)
(* (a null member is a set field holding a non-finite f64); an empty        *)
(* messages sequence is written as [].                                      *)
C8_RequestKeySet ==
    RequestSerialized =>
        /\ wire.k = "object"
        /\ Keys(wire) = {"model", "messages"} \cup {f \in OptionalRequestFields : mem[f].some}
        /\ Len(wire.m) = Cardinality(Keys(wire))
        /\ \A i \in 1..Len(wire.m) :
              wire.m[i].val = JNull => (mem[wire.m[i].key].some /\ mem[wire.m[i].key].v \in {NaN, Infinity})
        /\ Get(wire, "model") = JStr(mem.model)
        /\ Get(wire, "messages").k = "array"
        /\ Len(Get(wire, "messages").e) = Len(mem.messages)

C8_Witness ==
    /\ RequestSerialized
    /\ mem.messages = <<>>
    /\ mem.seed.some /\ ~mem.tool_choice.some
    /\ wire = JObj(<<Member("model", JStr("m")), Member("messages", JArr(<<>>)), Member("seed", JNum(16))>>)

(* C9: the content of an encoded message is a JSON string or a JSON array,  *)
(* never an object and never null, also when the message has no content.    *)
C9_ContentNeverNull ==
    /\ (pc = "serialized" /\ ty = "ChatCompletionMessage") =>
          (HasKey(wire, "content") => Get(wire, "content").k \in {"string", "array"})
    /\ RequestSerialized =>
          \A i \in 1..Len(Get(wire, "messages").e) :
              LET m == Get(wire, "messages").e[i]
              IN  HasKey(m, "content") => Get(m, "content").k \in {"string", "array"}

-----------------------------------------------------------------------------
(* ChatCompletionResponse *)

ResponseDecoded == pc = "deserialized" /\ ty = "ChatCompletionResponse"

ChoicesOf(j) == IF HasKey(j, "choices") THEN Get(j, "choices").e ELSE <<>>
MissingRequired(j) ==
    {f \in {"id", "model", "choices", "usage"} : ~HasKey(j, f)}
    \cup {f \in {"index", "message"} : \E i \in 1..Len(ChoicesOf(j)) : ~HasKey(ChoicesOf(j)[i], f)}

(* C10: a response lacking a required field (id, model, choices, usage;     *)
(* index, message of a choice) fails to decode with a missing-field error;  *)
(* with only optional fields absent it decodes and they are unset; the      *)
(* string "null" is a finish reason of its own, distinct from an unset one. *)
C10_ResponseRequiredFields ==
    ResponseDecoded =>
        /\ MissingRequired(wire) # {} =>
              (~res.ok /\ res.err = "missing_field" /\ res.what \in MissingRequired(wire))
        /\ MissingRequired(wire) = {} =>
              /\ res.ok
              /\ ~HasKey(wire, "system_fingerprint") => res.val.system_fingerprint = None
              /\ Len(res.val.choices) = Len(ChoicesOf(wire))
              /\ \A i \in 1..Len(ChoicesOf(wire)) :
                    LET c == ChoicesOf(wire)[i]
                        d == res.val.choices[i]
                    IN  /\ ~HasKey(c, "finish_reason") => d.finish_reason = None
                        /\ ~HasKey(c, "finish_details") => d.finish_details = None
                        /\ (HasKey(c, "finish_reason") /\ Get(c, "finish_reason") = JStr("null")) =>
                              (d.finish_reason = Some("null") /\ d.finish_reason # None)
                        /\ (HasKey(c, "finish_reason") /\ Get(c, "finish_reason") = JNull) =>
                              d.finish_reason = None

C10_Witness ==
    /\ ResponseDecoded
    /\ wire = JObj(<<Member("id", JStr("chatcmpl-1")), Member("model", JStr("m")),
                     Member("choices", JArr(<<JObj(<<Member("message", MessageForResponseDoc),
                                                      Member("finish_reason", JStr("null"))>>)>>)),
                     Member("usage", UsageDoc)>>)
    /\ res = Err("missing_field", "index")

====
